---- MODULE Spec2Model ----
(***************************************************************************)
(* ShowQuickCommitDetailsCommand (src/commands/showQuickCommitDetails.ts). *)
(*                                                                         *)
(* The command resolves an input location / revision id / commit to one    *)
(* commit and shows it in a picker (or in the persistent search view).     *)
(* Objects of the program live on small heaps: the args objects            *)
(* (ShowQuickCommitDetailsCommandArgs), the commits (only their            *)
(* workingFileName field is ever written) and the CommandQuickPickItems    *)
(* ("BackActions").  One invocation runs at a time; every await of the     *)
(* code is one value of pc, and every action is the code between two       *)
(* awaits.  Later invocations are replays of the BackActions built by      *)
(* earlier ones.                                                           *)
(***************************************************************************)
EXTENDS Integers, Sequences, FiniteSets, TLC

(***************************************************************************)
(* Bounds and values                                                       *)
(***************************************************************************)
\* number of invocations of the command in one behaviour
MaxSteps == 2

\* `undefined` for strings, and for object references
Undef == "undefined"
NoRef == 0

\* a slip: a page of one entry
MaxCountOne == 2 - 1

\* getLog(repoPath, { maxCount: 2, ref: args.sha })
MaxCount == 2

\* Command names (Commands.*)
ShowCommitInView == "ShowCommitInView"
ShowQuickCommitDetails == "ShowQuickCommitDetails"
ShowQuickCommitFileDetails == "ShowQuickCommitFileDetails"
ShowQuickCurrentBranchHistory == "ShowQuickCurrentBranchHistory"

\* Messages.*
FileNotUnderSourceControl == "FileNotUnderSourceControlWarning"
LineUncommitted == "LineUncommittedWarning"
CommitNotFound == "CommitNotFoundWarning"
GenericError == "GenericError"

\* revision ids a caller can name: two commits (s2 is the parent of s1) and a
\* ref name, which no log batch has as a key
Shas == {"s1", "s2", "HEAD"}

\* The commit objects the collaborators hand out.  isFile is the file-scoped
\* (lightweight) variant; wfn0 is the workingFileName the object starts with.
CommitPool ==
  << [sha |-> "s1", isFile |-> FALSE, isUncommitted |-> FALSE, repoPath |-> "/r1", fileName |-> "",       wfn0 |-> Undef],
     [sha |-> "s2", isFile |-> FALSE, isUncommitted |-> FALSE, repoPath |-> "/r1", fileName |-> "",       wfn0 |-> Undef],
     [sha |-> "s1", isFile |-> FALSE, isUncommitted |-> FALSE, repoPath |-> "/r1", fileName |-> "old.ts", wfn0 |-> "w.ts"],
     [sha |-> "s1", isFile |-> TRUE,  isUncommitted |-> FALSE, repoPath |-> "/r1", fileName |-> "old.ts", wfn0 |-> Undef],
     [sha |-> "s2", isFile |-> TRUE,  isUncommitted |-> FALSE, repoPath |-> "/r1", fileName |-> "a.ts",   wfn0 |-> "a.ts"],
     [sha |-> "00", isFile |-> TRUE,  isUncommitted |-> TRUE,  repoPath |-> "/r1", fileName |-> "a.ts",   wfn0 |-> Undef] >>

CommitIds == DOMAIN CommitPool

Commit(c) == CommitPool[c]

\* GitLog objects: the ref they were fetched for and their commits, by sha
LogPool ==
  << [sha |-> "s1",   commits |-> {1, 2}],
     [sha |-> "s2",   commits |-> {2}],
     [sha |-> "HEAD", commits |-> {1, 2}] >>

LogIds == DOMAIN LogPool

\* log batches a caller can hold from an earlier fetch
CachedLogIds == {1, 2}

\* Uris: a file location, possibly with a repository and a revision (GitUri)
NoUri == [fsPath |-> Undef, repoPath |-> Undef, sha |-> Undef]
FileUri == [fsPath |-> "/r1/a.ts", repoPath |-> Undef, sha |-> Undef]

\* editors: none, or one with the cursor on a line
NoEditor == [present |-> FALSE, line |-> 0]
Editors == {NoEditor, [present |-> TRUE, line |-> -1], [present |-> TRUE, line |-> 0]}

\* a back-action supplied by a caller (it belongs to another command)
CallerBack ==
  [command |-> "ShowQuickBranchHistory", description |-> "to caller",
   uri |-> FileUri, args |-> NoRef]

(***************************************************************************)
(* Pure helpers                                                            *)
(***************************************************************************)
\* args.repoLog.commits.get(sha)
LogGet(l, sha) ==
  IF \E c \in LogPool[l].commits : Commit(c).sha = sha
    THEN CHOOSE c \in LogPool[l].commits : Commit(c).sha = sha
    ELSE NoRef

\* paths.relative(repoPath, fsPath)
PathsRelative(rp, fs) ==
  CASE rp = "/r1" /\ fs = "/r1/a.ts" -> "a.ts"
    [] rp = "/r1" /\ fs = "/r1/old.ts" -> "old.ts"
    [] rp = "/r1" /\ fs = "/r1" -> ""
    [] OTHER -> fs

\* commit.toGitUri()
ToGitUri(c) ==
  [fsPath |-> IF Commit(c).fileName = "" THEN Commit(c).repoPath
              ELSE "/r1/" \o Commit(c).fileName,
   repoPath |-> Commit(c).repoPath,
   sha |-> Commit(c).sha]

\* getCommandUri(uri, editor)
GetCommandUri(u, ed) ==
  IF u # NoUri THEN u
  ELSE IF ~ed.present THEN NoUri
  ELSE FileUri

(***************************************************************************)
(* State                                                                   *)
(***************************************************************************)
VARIABLES
  argsHeap,         \* the args objects: [sha, commit, repoLog, showInView, goBackCommand]
  wfn,              \* commit.workingFileName of every commit object
  backs,            \* the CommandQuickPickItems: [command, description, uri, args]
  snaps,            \* history: the args a BackAction held when it was constructed
  step,             \* invocations started so far
  pc,               \* where the running invocation is suspended
  context,          \* the CommandContext preExecute was called with
  editor,           \* parameter editor
  uri,              \* parameter uri, after getCommandUri
  via,              \* the BackAction whose execution started the invocation, if any
  callerArgs,       \* the args object the caller passed to preExecute
  entry,            \* history: the args execute was called with
  inbound,          \* history: the BackAction entry.goBackCommand was at the call
  gitUri,           \* local gitUri
  request,          \* history: the args at line 103, where the second try begins
  found,            \* history: the commit at line 127 and the name it had there
  outcome,          \* history: how the last await ended
  args,             \* local args (a reference into argsHeap)
  repoPath,         \* local repoPath
  workingFileName,  \* local workingFileName
  blameCommit,      \* history: the commit blame returned
  log,              \* history: the batch getLog returned
  currentCommand,   \* local currentCommand (a reference into backs)
  pick,             \* local pick
  calls,            \* history: collaborator calls this invocation has issued
  msgs,             \* history: messages this invocation has shown
  shown,            \* history: the arguments of CommitQuickPick.show
  dispatched,       \* history: commands.executeCommand calls of this invocation
  fileArgs,         \* the args object handed to the file-detail command
  ret               \* the value the invocation returned

heapVars == <<argsHeap, wfn, backs, snaps>>
frameVars == <<context, editor, uri, via, callerArgs, entry, inbound, gitUri, args,
               repoPath, workingFileName, blameCommit, log, pick>>
historyVars == <<calls, msgs, shown, dispatched, fileArgs, ret>>
vars == <<heapVars, step, pc, frameVars, currentCommand, request, found, outcome, historyVars>>

\* what an invocation can pick in the picker
NoPick == [kind |-> "none", commit |-> NoRef, sha |-> Undef, item |-> NoRef]

\* a collaborator call, as the history records it
Call(op, s1, s2, n) == [op |-> op, repoPath |-> s1, ref |-> s2, n |-> n]

\* the args object a, with the one field of its commit that can change
Snapshot(h, w, a) ==
  [sha |-> h[a].sha, commit |-> h[a].commit,
   workingFileName |-> IF h[a].commit = NoRef THEN Undef ELSE w[h[a].commit],
   repoLog |-> h[a].repoLog, showInView |-> h[a].showInView,
   goBackCommand |-> h[a].goBackCommand]

\* the part of the state the code between two awaits reads and writes
Machine ==
  [pc |-> pc, argsHeap |-> argsHeap, wfn |-> wfn, backs |-> backs, snaps |-> snaps,
   currentCommand |-> currentCommand, request |-> request, found |-> found,
   calls |-> calls,
   msgs |-> msgs, shown |-> shown, ret |-> ret]

Becomes(m) ==
  /\ pc' = m.pc
  /\ argsHeap' = m.argsHeap
  /\ wfn' = m.wfn
  /\ backs' = m.backs
  /\ snaps' = m.snaps
  /\ currentCommand' = m.currentCommand
  /\ request' = m.request
  /\ found' = m.found
  /\ calls' = m.calls
  /\ msgs' = m.msgs
  /\ shown' = m.shown
  /\ ret' = m.ret

(***************************************************************************)
(* execute, between its awaits                                             *)
(***************************************************************************)
\* a slip: args is used as it came, without the copy
ShallowCopyAliased(h, a) == <<h, a>>

\* args = { ...args }: a new object with the same fields; <<heap, reference>>
ShallowCopy(h, a) == <<Append(h, h[a]), Len(h) + 1>>

\* return Messages.show...Message(...)
ReturnMessage(m, msg) ==
  [m EXCEPT !.pc = "done", !.msgs = Append(@, msg), !.ret = "message"]

\* return undefined
ReturnUndefined(m) == [m EXCEPT !.pc = "done", !.ret = Undef]

\* a slip: the failure is logged but no message is shown
CatchSilently(m) == ReturnUndefined(m)

\* catch (ex) { Logger.error(...); return Messages.showGenericErrorMessage(...) }
Catch(m) == ReturnMessage(m, GenericError)

\* a slip: currentCommand is built over the revision id alone
ShowPickerShaOnly(m, a, u) ==
  LET c == m.argsHeap[a].commit
      h == Append(m.argsHeap, [sha |-> m.argsHeap[a].sha, commit |-> NoRef,
                               repoLog |-> NoRef, showInView |-> FALSE,
                               goBackCommand |-> NoRef])
      item == [command |-> ShowQuickCommitDetails,
               description |-> Commit(c).sha,
               uri |-> ToGitUri(c), args |-> Len(h)]
      bs == Append(m.backs, item)
  IN [m EXCEPT !.pc = "show",
               !.argsHeap = h,
               !.backs = bs,
               !.snaps = Append(@, Snapshot(h, m.wfn, Len(h))),
               !.currentCommand = Len(bs),
               !.calls = Append(@, Call("show", Undef, Undef, c)),
               !.shown = Append(@, [commit |-> c, uri |-> u,
                                    goBackCommand |-> m.argsHeap[a].goBackCommand,
                                    currentCommand |-> Len(bs),
                                    repoLog |-> m.argsHeap[a].repoLog])]

\* lines 154-166: build currentCommand over args and show the picker
ShowPicker(m, a, u) ==
  LET c == m.argsHeap[a].commit
      item == [command |-> ShowQuickCommitDetails,
               description |-> Commit(c).sha,
               uri |-> ToGitUri(c), args |-> a]
      bs == Append(m.backs, item)
  IN [m EXCEPT !.pc = "show",
               !.backs = bs,
               !.snaps = Append(@, Snapshot(m.argsHeap, m.wfn, a)),
               !.currentCommand = Len(bs),
               !.calls = Append(@, Call("show", Undef, Undef, c)),
               !.shown = Append(@, [commit |-> c, uri |-> u,
                                    goBackCommand |-> m.argsHeap[a].goBackCommand,
                                    currentCommand |-> Len(bs),
                                    repoLog |-> m.argsHeap[a].repoLog])]

\* a slip: the back-action is synthesized whatever the caller supplied
NeedsBranchAlways(goBack) == TRUE

\* line 139: is the inbound back-action missing, so that one is synthesized?
NeedsBranch(goBack) == goBack = NoRef

\* a slip: the flag is ignored
InViewNever(showInView) == FALSE

\* line 131: is the commit routed to the persistent view?
InView(showInView) == showInView

\* a slip: the name the commit has is overwritten
DefaultWorkingFileNameAlways(w, c, wf) == [w EXCEPT ![c] = wf]

\* lines 127-129: the working-file name of commit c after the default
DefaultWorkingFileName(w, c, wf) ==
  IF w[c] = Undef THEN [w EXCEPT ![c] = wf] ELSE w

\* lines 123-166: from the commit check to the next await
AfterLookup(m, a, rp, wf, u) ==
  LET c == m.argsHeap[a].commit IN
  IF c = NoRef THEN ReturnMessage(m, CommitNotFound)
  ELSE
    LET m1 == [m EXCEPT !.wfn = DefaultWorkingFileName(m.wfn, c, wf),
                        !.found = [commit |-> c, workingFileName |-> m.wfn[c]]] IN
    IF InView(m1.argsHeap[a].showInView)
      THEN [m1 EXCEPT !.pc = "search",
                      !.calls = Append(@, Call("search", rp, Commit(c).sha, 0))]
    ELSE IF NeedsBranch(m1.argsHeap[a].goBackCommand)
      THEN [m1 EXCEPT !.pc = "getBranch",
                      !.calls = Append(@, Call("getBranch", Commit(c).repoPath, Undef, 0))]
    ELSE ShowPicker(m1, a, u)

\* a slip: every commit is looked up again
NeedsLookupAlways(c) == TRUE

\* a slip: a file-scoped commit is taken for a full one
NeedsLookupMissingOnly(c) == c = NoRef

\* line 104: does the commit have to be looked up in a log batch?
NeedsLookup(c) == c = NoRef \/ Commit(c).isFile

\* a slip: the commit is dropped but the stale batch is kept
LogCacheGuardKeepsBatch(r) ==
  IF r.repoLog = NoRef THEN r
  ELSE LET c == LogGet(r.repoLog, r.sha)
       IN IF c = NoRef THEN [r EXCEPT !.commit = NoRef]
          ELSE [r EXCEPT !.commit = c]

\* lines 105-111: the args object after the cached batch was asked for sha
LogCacheGuard(r) ==
  IF r.repoLog = NoRef THEN r
  ELSE LET c == LogGet(r.repoLog, r.sha)
       IN IF c = NoRef THEN [r EXCEPT !.commit = NoRef, !.repoLog = NoRef]
          ELSE [r EXCEPT !.commit = c]

\* a slip: the branch lookup is started together with the log fetch
ResolveEager(m0, a, rp, wf, u) ==
  LET m == [m0 EXCEPT !.request = Snapshot(m0.argsHeap, m0.wfn, a)] IN
  IF NeedsLookup(m.argsHeap[a].commit)
    THEN LET m1 == [m EXCEPT !.argsHeap[a] = LogCacheGuard(@)] IN
         IF m1.argsHeap[a].repoLog = NoRef
           THEN [m1 EXCEPT !.pc = "getLog",
                           !.calls = @ \o <<Call("getLog", rp, m1.argsHeap[a].sha, MaxCount),
                                            Call("getBranch", rp, Undef, 0)>>]
           ELSE AfterLookup(m1, a, rp, wf, u)
    ELSE AfterLookup(m, a, rp, wf, u)

\* lines 103-166: from the start of the second try block to the next await
Resolve(m0, a, rp, wf, u) ==
  LET m == [m0 EXCEPT !.request = Snapshot(m0.argsHeap, m0.wfn, a)] IN
  IF NeedsLookup(m.argsHeap[a].commit)
    THEN LET m1 == [m EXCEPT !.argsHeap[a] = LogCacheGuard(@)] IN
         IF m1.argsHeap[a].repoLog = NoRef
           THEN [m1 EXCEPT !.pc = "getLog",
                           !.calls = Append(@, Call("getLog", rp, m1.argsHeap[a].sha, MaxCount))]
           ELSE AfterLookup(m1, a, rp, wf, u)
    ELSE AfterLookup(m, a, rp, wf, u)

(***************************************************************************)
(* Inputs                                                                  *)
(***************************************************************************)
\* the args objects a caller can pass
CallerCommits == {1, 2, 3, 4}

ArgsInputs ==
  [sha : Shas \cup {Undef}, commit : {NoRef} \cup CallerCommits,
   repoLog : {NoRef} \cup CachedLogIds, showInView : BOOLEAN,
   goBackCommand : {NoRef, 1}]

\* the contexts the command dispatcher calls preExecute with: either alias,
\* from an editor/uri or from a view item (whose node may carry its commit)
Contexts ==
  [command : {ShowCommitInView, ShowQuickCommitDetails}, type : {"uri"},
   nodeSha : {Undef}, nodeCommit : {NoRef}]
  \cup
  [command : {ShowCommitInView, ShowQuickCommitDetails}, type : {"viewItem"},
   nodeSha : {"s2"}, nodeCommit : {NoRef, 2}]

NoContext == [command |-> Undef, type |-> Undef, nodeSha |-> Undef, nodeCommit |-> NoRef]

\* what getBlameForLine can return: a full commit, a file-scoped one, the
\* uncommitted placeholder
BlameCommits == {3, 4, 6}

\* the file of a commit the picker can offer
PickCommits == {5}

\* no commit has reached line 127
NoFound == [commit |-> NoRef, workingFileName |-> Undef]

NoSnapshot ==
  [sha |-> Undef, commit |-> NoRef, workingFileName |-> Undef, repoLog |-> NoRef,
   showInView |-> FALSE, goBackCommand |-> NoRef]

Init ==
  /\ argsHeap \in {<<a>> : a \in ArgsInputs}
  /\ wfn = [c \in CommitIds |-> Commit(c).wfn0]
  /\ backs = <<CallerBack>>
  /\ snaps = <<NoSnapshot>>
  /\ step = 0
  /\ pc = "idle"
  /\ context = NoContext
  /\ editor = NoEditor
  /\ uri = NoUri
  /\ via = NoRef
  /\ callerArgs = NoRef
  /\ entry = NoSnapshot
  /\ inbound = CallerBack
  /\ gitUri = NoUri
  /\ request = NoSnapshot
  /\ found = NoFound
  /\ outcome = "none"
  /\ args = NoRef
  /\ repoPath = Undef
  /\ workingFileName = Undef
  /\ blameCommit = NoRef
  /\ log = NoRef
  /\ currentCommand = NoRef
  /\ pick = NoPick
  /\ calls = <<>>
  /\ msgs = <<>>
  /\ shown = <<>>
  /\ dispatched = <<>>
  /\ fileArgs = NoRef
  /\ ret = Undef

(***************************************************************************)
(* preExecute, and execute up to its first await                           *)
(***************************************************************************)
\* lines 47-50: <<heap, reference>> after the ShowCommitInView alias is handled
ForceShowInView(h, a, ctx) ==
  IF ctx.command = ShowCommitInView
    THEN LET cp == ShallowCopy(h, a)
         IN <<[cp[1] EXCEPT ![cp[2]].showInView = TRUE], cp[2]>>
    ELSE <<h, a>>

\* lines 52-59: <<heap, reference>> after a view item's node is taken over
FromViewItem(h, a, ctx) ==
  IF ctx.type = "viewItem"
    THEN LET cp == ShallowCopy(h, a)
             h1 == [cp[1] EXCEPT ![cp[2]].sha = ctx.nodeSha]
         IN <<IF ctx.nodeCommit # NoRef
                THEN [h1 EXCEPT ![cp[2]].commit = ctx.nodeCommit]
                ELSE h1,
              cp[2]>>
    ELSE <<h, a>>

\* lines 46-66: preExecute(context, args) and execute down to
\* `await GitUri.fromUri(uri)`; a new invocation, so the history starts again
Start(ctx, ed, u, a, b) ==
  LET p1 == ForceShowInView(argsHeap, a, ctx)
      p2 == FromViewItem(p1[1], p1[2], ctx)
      u1 == GetCommandUri(u, ed)
  IN /\ step < MaxSteps
     /\ step' = step + 1
     /\ context' = ctx
     /\ editor' = ed
     /\ uri' = u1
     /\ via' = b
     /\ callerArgs' = a
     /\ entry' = Snapshot(p2[1], wfn, p2[2])
     /\ inbound' = IF p2[1][p2[2]].goBackCommand = NoRef THEN CallerBack
                   ELSE backs[p2[1][p2[2]].goBackCommand]
     /\ gitUri' = NoUri
     /\ request' = NoSnapshot
     /\ found' = NoFound
     /\ outcome' = "none"
     /\ argsHeap' = p2[1]
     /\ args' = p2[2]
     /\ pc' = IF u1 = NoUri THEN "done" ELSE "fromUri"
     /\ ret' = Undef
     /\ repoPath' = Undef
     /\ workingFileName' = Undef
     /\ blameCommit' = NoRef
     /\ log' = NoRef
     /\ currentCommand' = NoRef
     /\ pick' = NoPick
     /\ calls' = <<>>
     /\ msgs' = <<>>
     /\ shown' = <<>>
     /\ dispatched' = <<>>
     /\ fileArgs' = NoRef
     /\ UNCHANGED <<wfn, backs, snaps>>

\* the command dispatcher runs the command for a caller
Invoke ==
  /\ pc = "idle"
  /\ \E ctx \in Contexts, ed \in Editors, u \in {NoUri, FileUri} :
       Start(ctx, ed, u, 1, NoRef)

Ended == pc \in {"done", "rejected"}

\* CommandQuickPickItem.execute() of a BackAction built by an earlier
\* invocation: commands.executeCommand(item.command, ...item.args)
Replay ==
  /\ Ended
  /\ \E b \in DOMAIN backs, ed \in Editors :
       /\ backs[b].command = ShowQuickCommitDetails
       /\ Start([command |-> ShowQuickCommitDetails, type |-> "uri",
                 nodeSha |-> Undef, nodeCommit |-> NoRef],
                ed, backs[b].uri, backs[b].args, b)

(***************************************************************************)
(* execute: one action per outcome of each await                           *)
(***************************************************************************)
\* what no await of execute writes
startVars == <<step, context, editor, uri, via, callerArgs, entry, inbound>>

\* line 68: GitUri.fromUri(uri) rejects; the await is outside every try block
FromUriRejects ==
  /\ pc = "fromUri"
  /\ pc' = "rejected"
  /\ outcome' = "throws"
  /\ UNCHANGED <<heapVars, step, frameVars, currentCommand, request, found, historyVars>>

\* a slip: the cursor line is not checked
NoLineToBlameEditorOnly(ed) == ~ed.present

\* lines 74-78: does the invocation end for want of a line to blame?
NoLineToBlame(ed) == ~ed.present \/ ed.line < 0

\* lines 68-81 (and 103-166 when a revision id is given): GitUri.fromUri
\* resolves, with the repository of the location or without one
FromUriResolves ==
  /\ pc = "fromUri"
  /\ \E rp \in (IF uri.repoPath # Undef THEN {uri.repoPath} ELSE {Undef, "/r1"}) :
       LET wf == IF rp # Undef THEN PathsRelative(rp, uri.fsPath) ELSE uri.fsPath
           cp == ShallowCopy(argsHeap, args)
           m == [Machine EXCEPT !.argsHeap = cp[1]]
       IN /\ gitUri' = [uri EXCEPT !.repoPath = rp]
          /\ repoPath' = rp
          /\ workingFileName' = wf
          /\ args' = cp[2]
          /\ IF cp[1][cp[2]].sha = Undef
               THEN IF NoLineToBlame(editor)
                      THEN Becomes(ReturnUndefined(m))
                      ELSE Becomes([m EXCEPT !.pc = "blame",
                                     !.calls = Append(@, Call("getBlameForLine", Undef, Undef, editor.line))])
               ELSE Becomes(Resolve(m, cp[2], rp, wf, uri))
  /\ outcome' = "value"
  /\ UNCHANGED <<startVars, blameCommit, log, pick, dispatched, fileArgs>>

\* lines 97-100: getBlameForLine throws
BlameThrows ==
  /\ pc = "blame"
  /\ Becomes(Catch(Machine))
  /\ outcome' = "throws"
  /\ UNCHANGED <<step, frameVars, dispatched, fileArgs>>

\* lines 82-84: the file is not tracked
BlameUndefined ==
  /\ pc = "blame"
  /\ Becomes(ReturnMessage(Machine, FileNotUnderSourceControl))
  /\ outcome' = "undefined"
  /\ UNCHANGED <<step, frameVars, dispatched, fileArgs>>

\* a slip: the uncommitted placeholder is taken for a commit
IsUncommittedNever(b) == FALSE

\* line 87: is the blamed commit the uncommitted placeholder?
IsUncommitted(b) == Commit(b).isUncommitted

\* lines 87-95 and 103-166: blame returns a commit
BlameReturns ==
  /\ pc = "blame"
  /\ \E b \in BlameCommits :
       /\ blameCommit' = b
       /\ IF IsUncommitted(b)
            THEN /\ Becomes(ReturnMessage(Machine, LineUncommitted))
                 /\ UNCHANGED <<repoPath, workingFileName>>
            ELSE LET m == [Machine EXCEPT !.argsHeap[args].sha = Commit(b).sha,
                                          !.argsHeap[args].commit = b]
                 IN /\ repoPath' = Commit(b).repoPath
                    /\ workingFileName' = Commit(b).fileName
                    /\ Becomes(Resolve(m, args, Commit(b).repoPath, Commit(b).fileName, uri))
  /\ outcome' = "value"
  /\ UNCHANGED <<startVars, gitUri, args, log, pick, dispatched, fileArgs>>

\* lines 183-186: getLog throws
GetLogThrows ==
  /\ pc = "getLog"
  /\ Becomes(Catch(Machine))
  /\ outcome' = "throws"
  /\ UNCHANGED <<step, frameVars, dispatched, fileArgs>>

\* lines 115-117: getLog returns no batch
GetLogUndefined ==
  /\ pc = "getLog"
  /\ Becomes(ReturnMessage(Machine, CommitNotFound))
  /\ outcome' = "undefined"
  /\ UNCHANGED <<step, frameVars, dispatched, fileArgs>>

\* lines 119-166: getLog returns the batch fetched for args.sha
GetLogReturns ==
  /\ pc = "getLog"
  /\ \E l \in LogIds :
       /\ LogPool[l].sha = argsHeap[args].sha
       /\ log' = l
       /\ LET m == [Machine EXCEPT !.argsHeap[args].commit = LogGet(l, argsHeap[args].sha)]
          IN Becomes(AfterLookup(m, args, repoPath, workingFileName, uri))
  /\ outcome' = "value"
  /\ UNCHANGED <<startVars, gitUri, args, repoPath, workingFileName, blameCommit,
                 pick, dispatched, fileArgs>>

\* lines 132-136: the persistent view has searched
SearchReturns ==
  /\ pc = "search"
  /\ Becomes(ReturnUndefined(Machine))
  /\ outcome' = "value"
  /\ UNCHANGED <<step, frameVars, dispatched, fileArgs>>

\* lines 183-186: the persistent view throws
SearchThrows ==
  /\ pc = "search"
  /\ Becomes(Catch(Machine))
  /\ outcome' = "throws"
  /\ UNCHANGED <<step, frameVars, dispatched, fileArgs>>

\* lines 183-186: getBranch throws
GetBranchThrows ==
  /\ pc = "getBranch"
  /\ Becomes(Catch(Machine))
  /\ outcome' = "throws"
  /\ UNCHANGED <<step, frameVars, dispatched, fileArgs>>

\* lines 141, 154-166: no branch, so no back-action is synthesized
GetBranchUndefined ==
  /\ pc = "getBranch"
  /\ Becomes(ShowPicker(Machine, args, uri))
  /\ outcome' = "undefined"
  /\ UNCHANGED <<step, frameVars, dispatched, fileArgs>>

\* a slip: the back-action is given the input location, not the commit's
BranchHistoryItemOfInput(c) ==
  [command |-> ShowQuickCurrentBranchHistory, description |-> "to master history",
   uri |-> FileUri, args |-> NoRef]

\* lines 143-150: the back-action to the history of the branch
BranchHistoryItem(c) ==
  [command |-> ShowQuickCurrentBranchHistory, description |-> "to master history",
   uri |-> ToGitUri(c), args |-> NoRef]

\* lines 141-166: a branch; the back-action to its history is synthesized
GetBranchReturns ==
  /\ pc = "getBranch"
  /\ LET m == [Machine EXCEPT !.backs = Append(@, BranchHistoryItem(argsHeap[args].commit)),
                              !.snaps = Append(@, NoSnapshot),
                              !.argsHeap[args].goBackCommand = Len(backs) + 1]
     IN Becomes(ShowPicker(m, args, uri))
  /\ outcome' = "value"
  /\ UNCHANGED <<step, frameVars, dispatched, fileArgs>>

(***************************************************************************)
(* execute: the picker and what is done with the pick                      *)
(***************************************************************************)
\* lines 183-186: the picker throws
ShowThrows ==
  /\ pc = "show"
  /\ Becomes(Catch(Machine))
  /\ outcome' = "throws"
  /\ UNCHANGED <<step, frameVars, dispatched, fileArgs>>

\* line 173: nothing was picked
ShowCancelled ==
  /\ pc = "show"
  /\ Becomes(ReturnUndefined(Machine))
  /\ outcome' = "undefined"
  /\ UNCHANGED <<step, frameVars, dispatched, fileArgs>>

\* line 175: an item that is no file of the commit was picked: the inbound
\* back-action, or another command item (item = NoRef); return pick.execute()
ShowPicksCommand ==
  /\ pc = "show"
  /\ \E b \in {NoRef, argsHeap[args].goBackCommand} :
       pick' = [kind |-> "command", commit |-> NoRef, sha |-> Undef, item |-> b]
  /\ pc' = "pickExecute"
  /\ outcome' = "value"
  /\ calls' = Append(calls, Call("pick.execute", Undef, Undef, pick'.item))
  /\ UNCHANGED <<heapVars, startVars, gitUri, args, repoPath, workingFileName,
                 blameCommit, log, currentCommand, request, found, msgs, shown,
                 dispatched, fileArgs, ret>>

\* a slip: the file-detail command is given no way back
FileDetailsArgsNoBack(p, cur) ==
  [sha |-> p.sha, commit |-> p.commit, repoLog |-> NoRef, showInView |-> FALSE,
   goBackCommand |-> NoRef]

\* lines 177-181: the arguments of the file-detail command
FileDetailsArgs(p, cur) ==
  [sha |-> p.sha, commit |-> p.commit, repoLog |-> NoRef, showInView |-> FALSE,
   goBackCommand |-> cur]

\* lines 175-181: a file of the commit was picked;
\* return commands.executeCommand(ShowQuickCommitFileDetails, ...)
ShowPicksFile ==
  /\ pc = "show"
  /\ \E c \in PickCommits :
       pick' = [kind |-> "file", commit |-> c, sha |-> Commit(c).sha, item |-> NoRef]
  /\ argsHeap' = Append(argsHeap, FileDetailsArgs(pick', currentCommand))
  /\ fileArgs' = Len(argsHeap) + 1
  /\ dispatched' = Append(dispatched,
                          [command |-> ShowQuickCommitFileDetails,
                           uri |-> ToGitUri(pick'.commit),
                           args |-> Len(argsHeap) + 1,
                           request |-> FileDetailsArgs(pick', currentCommand)])
  /\ calls' = Append(calls, Call("executeCommand", Undef, Undef, Len(argsHeap) + 1))
  /\ pc' = "executeCommand"
  /\ outcome' = "value"
  /\ UNCHANGED <<wfn, backs, snaps, startVars, gitUri, args, repoPath, workingFileName,
                 blameCommit, log, currentCommand, request, found, msgs, shown, ret>>

\* the promise returned at line 175 resolves
PickExecuteResolves ==
  /\ pc = "pickExecute"
  /\ pc' = "done"
  /\ ret' = "pick.execute"
  /\ outcome' = "value"
  /\ UNCHANGED <<heapVars, step, frameVars, currentCommand, request, found, calls, msgs,
                 shown, dispatched, fileArgs>>

\* the promise returned at line 175 rejects: `return` without await, so the
\* catch block does not see it
PickExecuteRejects ==
  /\ pc = "pickExecute"
  /\ pc' = "rejected"
  /\ outcome' = "throws"
  /\ UNCHANGED <<heapVars, step, frameVars, currentCommand, request, found, historyVars>>

\* the promise returned at line 177 resolves
ExecuteCommandResolves ==
  /\ pc = "executeCommand"
  /\ pc' = "done"
  /\ ret' = "executeCommand"
  /\ outcome' = "value"
  /\ UNCHANGED <<heapVars, step, frameVars, currentCommand, request, found, calls, msgs,
                 shown, dispatched, fileArgs>>

\* the promise returned at line 177 rejects
ExecuteCommandRejects ==
  /\ pc = "executeCommand"
  /\ pc' = "rejected"
  /\ outcome' = "throws"
  /\ UNCHANGED <<heapVars, step, frameVars, currentCommand, request, found, historyVars>>

\* the file-detail command works on the request it was handed: it names
\* another revision and drops the commit
FileDetails ==
  /\ pc \in {"executeCommand", "done", "rejected"}
  /\ fileArgs # NoRef
  /\ argsHeap[fileArgs] = dispatched[1].request
  /\ argsHeap' = [argsHeap EXCEPT ![fileArgs].sha = "HEAD", ![fileArgs].commit = NoRef]
  /\ UNCHANGED <<wfn, backs, snaps, step, pc, frameVars, currentCommand, request,
                 found, outcome, historyVars>>

Next ==
  \/ Invoke
  \/ Replay
  \/ FromUriRejects
  \/ FromUriResolves
  \/ BlameThrows
  \/ BlameUndefined
  \/ BlameReturns
  \/ GetLogThrows
  \/ GetLogUndefined
  \/ GetLogReturns
  \/ SearchReturns
  \/ SearchThrows
  \/ GetBranchThrows
  \/ GetBranchUndefined
  \/ GetBranchReturns
  \/ ShowThrows
  \/ ShowCancelled
  \/ ShowPicksCommand
  \/ ShowPicksFile
  \/ PickExecuteResolves
  \/ PickExecuteRejects
  \/ ExecuteCommandResolves
  \/ ExecuteCommandRejects
  \/ FileDetails

Spec == Init /\ [][Next]_vars

(***************************************************************************)
(* Properties                                                              *)
(***************************************************************************)
\* the calls of one kind the running invocation has issued
CallsOf(op) == {i \in DOMAIN calls : calls[i].op = op}

Running == step > 0

\* the BackActions that return to this command
ReturnHere == {b \in DOMAIN backs : backs[b].command = ShowQuickCommitDetails}

\* C1: every "return here" BackAction holds, in every later state, the
\* arguments (sha, commit with its working-file name, cached log batch,
\* showInView, inbound back-action) its invocation had when it was
\* constructed, whatever later invocations and the file-detail command do to
\* their own requests; and an invocation started by executing the BackAction
\* is called with exactly those arguments.
C1_SnapshotIsolation ==
  /\ \A b \in ReturnHere :
       Snapshot(argsHeap, wfn, backs[b].args) = snaps[b]
  /\ via # NoRef => entry = snaps[via]

\* C1 happens: a replay of a BackAction has synthesized a back-action into
\* its own request, which the BackAction's arguments do not have
C1_Witness ==
  /\ via # NoRef
  /\ pc = "show"
  /\ argsHeap[args].goBackCommand # NoRef
  /\ argsHeap[backs[via].args].goBackCommand = NoRef

\* the request as the second try block found it needs a lookup and carries a
\* batch fetched for another revision id than the one it names
StaleBatch ==
  /\ Running
  /\ request # NoSnapshot
  /\ request.commit = NoRef \/ Commit(request.commit).isFile
  /\ request.repoLog # NoRef
  /\ LogPool[request.repoLog].sha # request.sha

\* the cached batch was discarded and a log fetch anchored at the requested
\* revision id answers the lookup
FetchedAfresh ==
  /\ CallsOf("getLog") # {}
  /\ \A i \in CallsOf("getLog") : calls[i].ref = request.sha
  /\ argsHeap[args].repoLog = NoRef
  /\ shown # <<>> => log # NoRef /\ shown[1].commit = LogGet(log, request.sha)

C3_NeverRejects == pc # "rejected"

\* execute was called with a full commit and no cached log batch
FullCommitNoBatch ==
  /\ Running
  /\ entry.commit # NoRef
  /\ ~Commit(entry.commit).isFile
  /\ entry.repoLog = NoRef

\* C4 as stated: an invocation called with a full commit and no cached log
\* batch never issues a log fetch, with or without a revision id.
C4_Original == FullCommitNoBatch => CallsOf("getLog") = {}

\* C4, amended: an invocation called with a revision id, a full commit and no
\* cached log batch never issues a log fetch.
C4_FastPath ==
  FullCommitNoBatch /\ entry.sha # Undef => CallsOf("getLog") = {}

\* C4 happens: such an invocation has reached the picker
C4_Witness ==
  /\ FullCommitNoBatch
  /\ entry.sha # Undef
  /\ pc = "show"

\* C5: an invocation without a revision id and without an active editor, or
\* with a negative cursor line, issues no call to a collaborator (blame, log,
\* branch, view, picker, command), shows no message and returns no value.
C5_SilentNoOp ==
  Running /\ entry.sha = Undef /\ (~editor.present \/ editor.line < 0) =>
    /\ pc \in {"fromUri", "done", "rejected"}
    /\ calls = <<>>
    /\ msgs = <<>>
    /\ shown = <<>>
    /\ dispatched = <<>>
    /\ ret = Undef

\* C5 happens: an invocation with an editor whose cursor line is negative
\* has resolved its location and returned
C5_Witness ==
  /\ entry.sha = Undef
  /\ editor.present
  /\ editor.line < 0
  /\ gitUri # NoUri
  /\ pc = "done"

\* C6: when blame returns the uncommitted placeholder, the invocation shows
\* the 'line uncommitted' warning once and ends: blame is the only call it
\* has issued (no log fetch, no branch lookup, no view, no picker).
C6_UncommittedLine ==
  blameCommit # NoRef /\ Commit(blameCommit).isUncommitted =>
    /\ entry.sha = Undef
    /\ pc = "done"
    /\ msgs = <<LineUncommitted>>
    /\ Len(calls) = 1
    /\ calls[1].op = "getBlameForLine"
    /\ shown = <<>>
    /\ dispatched = <<>>

\* C6 happens: blame has returned the uncommitted placeholder
C6_Witness ==
  /\ blameCommit # NoRef
  /\ Commit(blameCommit).isUncommitted
  /\ msgs # <<>>

\* execute was called with a revision id alone and has its location
DirectRevision ==
  /\ Running
  /\ entry.sha # Undef
  /\ entry.commit = NoRef
  /\ entry.repoLog = NoRef
  /\ gitUri # NoUri

\* the log fetch returned no batch, or a batch without the revision id
BatchAbsentOrLacking ==
  \/ Len(calls) = 1 /\ outcome = "undefined"
  \/ log # NoRef /\ LogGet(log, entry.sha) = NoRef

C8_ShowInView ==
  /\ Running /\ context.command = ShowCommitInView => entry.showInView
  /\ Running /\ entry.showInView =>
       /\ CallsOf("getBranch") = {}
       /\ CallsOf("pick.execute") = {}
       /\ CallsOf("executeCommand") = {}
       /\ CallsOf("show") = {}
       /\ shown = <<>>
       /\ dispatched = <<>>
       /\ currentCommand = NoRef
       /\ pc \notin {"getBranch", "show", "pickExecute", "executeCommand"}
       /\ \A i \in CallsOf("search") :
            /\ i = Len(calls)
            /\ argsHeap[args].commit # NoRef
            /\ calls[i] = [op |-> "search", repoPath |-> repoPath,
                           ref |-> Commit(argsHeap[args].commit).sha, n |-> 0]
       /\ pc = "done" /\ msgs = <<>> /\ request # NoSnapshot =>
            CallsOf("search") # {} /\ ret = Undef

\* C8 happens: the alias forced the flag the caller had not set, and the
\* commit was shown in the view
C8_Witness ==
  /\ context.command = ShowCommitInView
  /\ ~argsHeap[callerArgs].showInView
  /\ CallsOf("search") # {}
  /\ pc = "done"
  /\ msgs = <<>>

\* C9: when a file of the commit is picked, the invocation dispatches the
\* file-detail command once, with the picked file's commit and revision id
\* and, as back-action, the "return here" BackAction it built over its own
\* request; it executes no picked action, shows no message and returns the
\* result of the dispatch.  Nothing is dispatched otherwise.
C9_DrillDown ==
  /\ Running /\ pick.kind = "file" =>
       /\ pc \in {"executeCommand", "done", "rejected"}
       /\ Len(dispatched) = 1
       /\ dispatched[1].command = ShowQuickCommitFileDetails
       /\ dispatched[1].uri = ToGitUri(pick.commit)
       /\ dispatched[1].request =
            [sha |-> pick.sha, commit |-> pick.commit, repoLog |-> NoRef,
             showInView |-> FALSE, goBackCommand |-> shown[1].currentCommand]
       /\ shown[1].currentCommand \in ReturnHere
       /\ backs[shown[1].currentCommand].args = args
       /\ Cardinality(CallsOf("executeCommand")) = 1
       /\ CallsOf("pick.execute") = {}
       /\ msgs = <<>>
       /\ pc = "done" => ret = "executeCommand"
  /\ pick.kind # "file" => dispatched = <<>>

\* C9 happens: a file was picked and the dispatch has returned
C9_Witness ==
  /\ pick.kind = "file"
  /\ pc = "done"

\* C10: an invocation called with an inbound BackAction issues no branch
\* lookup; the picker is given that BackAction, which is as it was at the
\* call, and the request the "return here" BackAction holds names it too.
C10_InboundReused ==
  Running /\ entry.goBackCommand # NoRef =>
    /\ CallsOf("getBranch") = {}
    /\ shown # <<>> =>
         /\ shown[1].goBackCommand = entry.goBackCommand
         /\ backs[shown[1].goBackCommand] = inbound
         /\ snaps[shown[1].currentCommand].goBackCommand = entry.goBackCommand
         /\ argsHeap[backs[shown[1].currentCommand].args].goBackCommand = entry.goBackCommand

\* C10 happens: the picker is shown in an invocation called with an inbound
\* BackAction
C10_Witness ==
  /\ entry.goBackCommand # NoRef
  /\ pc = "show"

\* C11: an invocation called without an inbound BackAction that reaches the
\* picker has looked the branch of the commit up once, right before; the
\* picker is given a back-action exactly when that lookup returned a branch,
\* and it is then a new item for the 'show branch history' command whose URI
\* is the one of the commit shown.
C11_SynthesizedBack ==
  Running /\ entry.goBackCommand = NoRef /\ shown # <<>> =>
    LET g == shown[1].goBackCommand IN
    /\ Cardinality(CallsOf("getBranch")) = 1
    /\ \A i \in CallsOf("getBranch") :
         /\ calls[i].repoPath = Commit(shown[1].commit).repoPath
         /\ calls[i + 1].op = "show"
    /\ pc = "show" => (g # NoRef <=> outcome = "value")
    /\ pc = "show" /\ g = NoRef => outcome = "undefined"
    /\ g # NoRef =>
         /\ backs[g].command = ShowQuickCurrentBranchHistory
         /\ backs[g].uri = ToGitUri(shown[1].commit)
         /\ g # entry.goBackCommand
         /\ argsHeap[args].goBackCommand = g

\* C11 happens: without an inbound BackAction the picker is shown with a
\* synthesized back-action
C11_Witness ==
  /\ entry.goBackCommand = NoRef
  /\ pc = "show"
  /\ shown[1].goBackCommand # NoRef

\* the other side of C11: the picker is shown without any back-action
C11_NoBranch ==
  /\ entry.goBackCommand = NoRef
  /\ pc = "show"
  /\ shown[1].goBackCommand = NoRef

\* C12: no step of an invocation, preExecute included, changes the args
\* object the caller supplied or what is reachable from it: its fields, its
\* commit and the commit's working-file name (a log batch is never written).
C12_CallerUntouched ==
  [][callerArgs' # NoRef =>
       Snapshot(argsHeap', wfn', callerArgs') = Snapshot(argsHeap, wfn, callerArgs')]_vars

\* the commit has been displayed: by the picker or by the persistent view
Displayed == shown # <<>> \/ CallsOf("search") # {}

\* the request reached the second try block with a file-scoped commit
FileScopedRequest ==
  /\ request # NoSnapshot
  /\ request.commit # NoRef
  /\ Commit(request.commit).isFile

\* C13: the commit the picker or the persistent view is given is a full
\* commit; a request that carried a file-scoped commit (the caller's or the
\* blamed one) displays the entry for its revision id of a log batch, the
\* cached one or the fetched one, or ends with the 'commit not found'
\* warning (or, when the log fetch throws, with the generic error).
C13_FullCommitDisplayed ==
  Running =>
    /\ \A i \in DOMAIN shown :
         /\ shown[i].commit = found.commit
         /\ ~Commit(shown[i].commit).isFile
    /\ \A i \in CallsOf("search") :
         /\ found.commit # NoRef
         /\ ~Commit(found.commit).isFile
         /\ calls[i].ref = Commit(found.commit).sha
    /\ FileScopedRequest /\ found.commit # NoRef =>
         LET l == IF log # NoRef THEN log ELSE argsHeap[args].repoLog
         IN /\ l # NoRef
            /\ found.commit \in LogPool[l].commits
            /\ found.commit = LogGet(l, request.sha)
    /\ FileScopedRequest /\ found.commit = NoRef =>
         /\ ~Displayed
         /\ pc = "done" => msgs \in {<<CommitNotFound>>, <<GenericError>>}
         /\ pc = "done" /\ outcome # "throws" => msgs = <<CommitNotFound>>

\* C13 happens: the blamed commit was file-scoped and the picker is shown
C13_Witness ==
  /\ FileScopedRequest
  /\ blameCommit # NoRef
  /\ pc = "show"

\* C13 happens for a caller's file-scoped commit, upgraded from the cached
\* batch and routed to the persistent view
C13_CallerCommit ==
  /\ FileScopedRequest
  /\ blameCommit = NoRef
  /\ log = NoRef
  /\ CallsOf("search") # {}

\* the queries to the git service
BackendOps == {"getBlameForLine", "getLog", "getBranch"}

\* the last collaborator call was a backend query, and it threw
BackendFailed ==
  /\ outcome = "throws"
  /\ calls # <<>>
  /\ calls[Len(calls)].op \in BackendOps

\* C14: when the blame query, the log fetch or the branch lookup throws, the
\* invocation has ended with the generic error message as its only message;
\* the failed query is the last call it issued and was issued once; there
\* is no picker, no search of the persistent view and no dispatch.
C14_FailureIsTerminal ==
  Running /\ BackendFailed =>
    /\ pc = "done"
    /\ msgs = <<GenericError>>
    /\ ret = "message"
    /\ \A op \in BackendOps : Cardinality(CallsOf(op)) <= 1
    /\ shown = <<>>
    /\ CallsOf("show") = {}
    /\ CallsOf("search") = {}
    /\ CallsOf("pick.execute") = {}
    /\ CallsOf("executeCommand") = {}
    /\ dispatched = <<>>

\* C14 happens: blame and the log fetch answered, the branch lookup threw
C14_Witness ==
  /\ BackendFailed
  /\ Len(calls) = 3
  /\ calls[3].op = "getBranch"

\* C14 happens for the blame query and for the log fetch too
C14_BlameFailed ==
  /\ BackendFailed
  /\ calls[Len(calls)].op = "getBlameForLine"

C14_LogFailed ==
  /\ BackendFailed
  /\ calls[Len(calls)].op = "getLog"

\* the place of a backend query in the order blame, log fetch, branch lookup
Rank(op) ==
  CASE op = "getBlameForLine" -> 1
    [] op = "getLog" -> 2
    [] op = "getBranch" -> 3

\* the backend query the invocation is waiting for, if any
Outstanding ==
  {i \in DOMAIN calls :
     \/ calls[i].op = "getBlameForLine" /\ pc = "blame"
     \/ calls[i].op = "getLog" /\ pc = "getLog"
     \/ calls[i].op = "getBranch" /\ pc = "getBranch"}

\* the backend query issued as call i returned something the code goes on with
Usable(i) ==
  CASE calls[i].op = "getBlameForLine" ->
         blameCommit # NoRef /\ ~Commit(blameCommit).isUncommitted
    [] calls[i].op = "getLog" ->
         log # NoRef /\ LogGet(log, calls[i].ref) # NoRef
    [] calls[i].op = "getBranch" -> TRUE

\* C15: an invocation waits for at most one backend query, the last call
\* it issued; blame, log fetch and branch lookup are each issued at most
\* once and in this order, each after every earlier one has returned a
\* usable result; the picker is shown at most once, as the call after the
\* last query, when no query is outstanding.
C15_SequentialGating ==
  Running =>
    /\ Cardinality(Outstanding) <= 1
    /\ \A i \in Outstanding : i = Len(calls)
    /\ pc \in {"blame", "getLog", "getBranch"} => Outstanding # {}
    /\ \A op \in BackendOps : Cardinality(CallsOf(op)) <= 1
    /\ \A i, j \in DOMAIN calls :
         i < j /\ calls[i].op \in BackendOps =>
           /\ Usable(i)
           /\ calls[j].op \in BackendOps => Rank(calls[i].op) < Rank(calls[j].op)
    /\ Len(shown) <= 1
    /\ Cardinality(CallsOf("show")) = Len(shown)
    /\ \A i \in CallsOf("show") :
         /\ Outstanding = {}
         /\ \A j \in DOMAIN calls : calls[j].op \in BackendOps => j < i

\* C15 happens: blame, log fetch and branch lookup were issued and the
\* picker is shown
C15_Witness ==
  /\ pc = "show"
  /\ Len(calls) = 4
  /\ \A op \in BackendOps : CallsOf(op) # {}

\* lines 70-71: the working-file name computed at entry from the input
\* location
EntryWorkingFileName ==
  IF gitUri.repoPath # Undef THEN PathsRelative(gitUri.repoPath, gitUri.fsPath)
  ELSE gitUri.fsPath

\* C16 as stated: the displayed commit keeps the working-file name it had
\* at line 127, and one that had none has the path of the input location
\* relative to the repository root, as computed at entry.
C16_Original ==
  Running /\ Displayed =>
    wfn[found.commit] =
      IF found.workingFileName # Undef THEN found.workingFileName
      ELSE EntryWorkingFileName

\* C16: the displayed commit keeps the working-file name it had at line
\* 127; one that had none has the file name of the blamed commit when the
\* revision was found by blame, and otherwise the name computed at entry:
\* the path of the input location relative to the repository root, or its
\* full path when the location has no repository.
C16_WorkingFileName ==
  Running /\ Displayed =>
    /\ wfn[found.commit] =
         IF found.workingFileName # Undef THEN found.workingFileName
         ELSE IF blameCommit # NoRef THEN Commit(blameCommit).fileName
         ELSE EntryWorkingFileName
    /\ wfn[found.commit] # Undef
    /\ workingFileName =
         IF blameCommit # NoRef THEN Commit(blameCommit).fileName
         ELSE EntryWorkingFileName

\* C16 happens: the blamed commit was upgraded from a log batch to a commit
\* without a working-file name, and the picker is shown
C16_Witness ==
  /\ pc = "show"
  /\ blameCommit # NoRef
  /\ log # NoRef
  /\ found.workingFileName = Undef
  /\ Commit(blameCommit).fileName # EntryWorkingFileName

\* C16 happens without blame, and for a commit that has a name already
C16_EntryName ==
  /\ pc = "show"
  /\ blameCommit = NoRef
  /\ found.workingFileName = Undef
  /\ gitUri.repoPath # Undef

C16_NameKept ==
  /\ pc = "show"
  /\ found.workingFileName # Undef
  /\ found.workingFileName # workingFileName

\* C17: the log batch the picker is given, if any, has an entry for the
\* revision id of the commit the picker displays.
C17_NoStaleBatch ==
  \A i \in DOMAIN shown :
    shown[i].repoLog # NoRef =>
      LogGet(shown[i].repoLog, Commit(shown[i].commit).sha) # NoRef

\* C18: when a commit is given to the picker or searched in the persistent
\* view, the request names a revision id, and it is the one of that commit.
C18_RequestedRevision ==
  Running /\ Displayed =>
    /\ argsHeap[args].sha # Undef
    /\ argsHeap[args].sha = Commit(found.commit).sha
    /\ argsHeap[args].commit = found.commit

\* the invocation was started by executing a "return here" BackAction
Replayed == Running /\ via # NoRef

\* C19: an invocation started by executing the "return here" BackAction of
\* an earlier picker issues no blame query and no log fetch; once its input
\* location is resolved it goes to the picker, directly when the earlier
\* picker had a back-action and through one branch lookup when it had none;
\* the picker is shown for the commit of the earlier picker, and with the
\* very back-action of the earlier picker when there was one.  Only a
\* failure (of the location, the branch lookup or the picker) ends it
\* otherwise.
C19_RoundTrip ==
  Replayed =>
    /\ CallsOf("getBlameForLine") = {}
    /\ CallsOf("getLog") = {}
    /\ CallsOf("search") = {}
    /\ LET n == snaps[via] IN
       /\ entry = n
       /\ n.commit # NoRef
       /\ uri = ToGitUri(n.commit)
       /\ n.goBackCommand # NoRef => CallsOf("getBranch") = {}
       /\ gitUri # NoUri =>
            /\ calls # <<>>
            /\ calls[1].op = IF n.goBackCommand = NoRef THEN "getBranch" ELSE "show"
       /\ pc = "done" /\ msgs = <<>> => shown # <<>>
       /\ msgs # <<>> => msgs = <<GenericError>> /\ outcome = "throws"
       /\ shown # <<>> =>
            /\ shown[1].commit = n.commit
            /\ n.goBackCommand # NoRef => shown[1].goBackCommand = n.goBackCommand
            /\ n.goBackCommand = NoRef => Cardinality(CallsOf("getBranch")) = 1

\* C19 happens: the replay shows the picker with the back-action of the
\* earlier picker
C19_Witness ==
  /\ Replayed
  /\ pc = "show"
  /\ snaps[via].goBackCommand # NoRef

\* C19 happens for an earlier picker without a back-action: the replay has
\* looked the branch up again, and found one this time
C19_BranchAgain ==
  /\ Replayed
  /\ pc = "show"
  /\ snaps[via].goBackCommand = NoRef
  /\ shown[1].goBackCommand # NoRef

\* the terminal outcomes of an invocation
SilentNoOp ==
  /\ pc = "done" /\ ret = Undef
  /\ msgs = <<>> /\ calls = <<>>

DomainWarning ==
  /\ pc = "done" /\ ret = "message"
  /\ Len(msgs) = 1
  /\ msgs[1] \in {FileNotUnderSourceControl, LineUncommitted, CommitNotFound}

GenericErrorShown ==
  /\ pc = "done" /\ ret = "message"
  /\ msgs = <<GenericError>>

ShownInView ==
  /\ pc = "done" /\ ret = Undef
  /\ msgs = <<>> /\ CallsOf("search") # {}

Cancelled ==
  /\ pc = "done" /\ ret = Undef
  /\ msgs = <<>> /\ shown # <<>>
  /\ pick.kind = "none" /\ dispatched = <<>>

PickedActionExecuted ==
  /\ Ended
  /\ msgs = <<>> /\ shown # <<>>
  /\ pick.kind = "command" /\ CallsOf("pick.execute") # {}

FileDetailDispatched ==
  /\ Ended
  /\ msgs = <<>> /\ shown # <<>>
  /\ pick.kind = "file" /\ dispatched # <<>>

Outcomes ==
  <<SilentNoOp, DomainWarning, GenericErrorShown, ShownInView, Cancelled,
    PickedActionExecuted, FileDetailDispatched>>

\* how far execute has come
PhaseRank(p) ==
  CASE p = "fromUri" -> 1
    [] p = "blame" -> 2
    [] p = "getLog" -> 3
    [] p \in {"search", "getBranch"} -> 4
    [] p = "show" -> 5
    [] p \in {"pickExecute", "executeCommand"} -> 6
    [] p \in {"done", "rejected"} -> 7

\* C20: an invocation that has ended (which it does once every await has
\* returned, see C20_Progress and C20_NoLoopBack) has reached exactly one of
\* the seven terminal outcomes.
C20_OneTerminalOutcome ==
  Running /\ Ended =>
    Cardinality({i \in DOMAIN Outcomes : Outcomes[i]}) = 1

\* the part of C20 that holds: every step of a running invocation takes it
\* to a later phase
C20_NoLoopBack ==
  [][step' = step /\ pc' # pc => PhaseRank(pc') > PhaseRank(pc)]_vars

\* the part of C20 that holds: an invocation that has not ended waits for an
\* await, and ends in one of the outcomes or with nothing but a rejection
\* of GitUri.fromUri
C20_Progress ==
  Running =>
    /\ pc \in {"fromUri", "blame", "getLog", "search", "getBranch", "show",
               "pickExecute", "executeCommand", "done", "rejected"}
    /\ Ended =>
         \/ Cardinality({i \in DOMAIN Outcomes : Outcomes[i]}) = 1
         \/ pc = "rejected" /\ calls = <<>> /\ msgs = <<>>

====
